---- MODULE Spec2Model ----
(***************************************************************************)
(* wispchat: a chat-completion client (src/wispchat/api.py, class          *)
(* WishChat).  The model covers one client instance shared by several      *)
(* threads: the thread-local system prompt override, the public entry      *)
(* points __call__ / stream / completion, the tenacity retry loop around   *)
(* _call_openai_api, the generator of response chunks a stream returns,   *)
(* the system_prompt decorator and the response log.  Other clients of     *)
(* the process are modelled by their construction only, which writes the   *)
(* attributes of the module openai and adds sinks to loguru's logger.      *)
(*                                                                         *)
(* Python values are encoded as follows.  A str is a TLA+ string; the      *)
(* value None of an Optional[str] is the string NoneStr, which is not a    *)
(* prompt.  A dict is a function whose DOMAIN is its key set; the value    *)
(* None of an Optional[Dict] is NoneDict, a function with a reserved key.  *)
(* Calls are made with functions=None.                                     *)
(***************************************************************************)
EXTENDS Integers, Sequences, FiniteSets, TLC

\* ------------------------------------------------------------------ bounds
Threads == {1, 2}

MaxScopes == 2

MaxCalls == 2

MaxPromptCalls == 1

MaxClock == 1

\* Raw chunks a stream's provider hands out, and reads of one stream.
MaxChunks == 2

MaxPulls == 3

\* Constructions of other clients.
MaxClients == 2

\* ------------------------------------------------------- program constants
MAX_ATTEMPTS == 6

RetryableKinds ==
    {"Timeout", "APIError", "APIConnectionError", "RateLimitError",
     "ServiceUnavailableError"}

\* Other exception classes of openai.error, raised by ChatCompletion.create.
OtherRemoteKinds == {"AuthenticationError", "InvalidRequestError"}

RemoteErrorKinds == RetryableKinds \cup OtherRemoteKinds

\* What one ChatCompletion.create invocation does: raise one of the error
\* kinds, return a payload that fits the response schema ("ok"), or return
\* a payload that does not ("bad").
Answers == RemoteErrorKinds \cup {"ok", "bad"}

\* ------------------------------------------------------------ value domains
NoneStr == "<None>"

Unset == "<unset>"

NoneDict == [None |-> TRUE]

DefaultPrompts == {"", "You are a helpful assistant."}

OverridePrompts == {"", "You are a dog."}

SystemPromptArgs == {NoneStr, "", "You are a pirate."}

UserMessageLists == {<< >>, <<"u1">>, <<"u2", "u1">>}

SUPPORTED_API_TYPES == {"openai", "azure"}

\* The arguments the client was constructed with.
OwnKey == "key-1"

OwnBase == "https://one.example"

OwnVersion == "2023-03-15"

\* The arguments other clients are constructed with.
ApiTypes == SUPPORTED_API_TYPES \cup {"anthropic"}

OtherKeys == {"key-2"}

OtherBases == {"https://two.example"}

OtherVersion == "2023-05-15"

\* Caller-supplied options: None, {} or a dict with some of the keys
\* stream and n.
OptionDicts ==
    {NoneDict, << >>}
      \cup [{"stream"} -> BOOLEAN]
      \cup [{"n"} -> {0, 2}]
      \cup {[stream |-> s, n |-> k] : s \in BOOLEAN, k \in {0, 2}}

\* ------------------------------------------------------------------- state
VARIABLES
    _system_prompt,   \* self._system_prompt
    enable_logging,   \* self.enable_logging
    api_type,         \* self.api_type
    openai,           \* the attributes api_key, api_type, api_base and
                      \* api_version of the module openai
    handlers,         \* sinks writing log_file.json added to loguru's logger
    ctor,             \* arguments and outcome of the last construction of
                      \* another client in the process
    nctor,            \* constructions of other clients so far
    others,           \* the other clients constructed, in order
    _local,           \* self._local.system_prompt of each thread, or Unset
    scopes,           \* per thread: the suspended override_system_prompt
                      \* generators, innermost last
    escaped,          \* per thread: has a with-body been left by an exception
    unit,             \* per thread: the call of a function decorated with
                      \* system_prompt that is running or ran last
    pc,               \* per thread: "idle" or "calling" (inside the retry loop)
    req,              \* per thread: the arguments of the last public operation
    callerOptions,    \* per thread: the caller's options object after the
                      \* last public operation
    warned,           \* per thread: warnings.warn calls of the last operation
    sent,             \* per thread: arguments of _call_openai_api
    attempts,         \* per thread: ChatCompletion.create invocations of the
                      \* last operation
    remote,           \* per thread: keyword arguments and answer of the last
                      \* ChatCompletion.create invocation
    outcome,          \* per thread: how the last operation ended
    reuseOf,          \* per thread: the operation whose options object was
                      \* passed again to the last operation, or "none"
    gen,              \* per thread: the generator the last stream returned
    logRecords,       \* records passed to logger.info, in order
    logFile,          \* records written to log_file.json, in order
    completed,        \* non-streaming operations that returned a response
    ncalls,           \* public operations started
    now               \* time.perf_counter()

vars ==
    <<_system_prompt, enable_logging, api_type, openai, handlers, ctor, nctor,
      others, _local, scopes, escaped, unit, pc, req, callerOptions, warned,
      sent, attempts, remote, outcome, reuseOf, gen, logRecords, logFile,
      completed, ncalls, now>>

config == <<_system_prompt, enable_logging, api_type>>

process == <<openai, handlers, ctor, nctor, others>>

promptState == <<_local, scopes, escaped, unit>>

callState ==
    <<pc, req, callerOptions, warned, sent, attempts, remote, outcome, reuseOf,
      gen, ncalls>>

logState == <<logRecords, logFile, completed, now>>

\* ----------------------------------------------------------- python helpers
\* bool(x) of an Optional[str].
TruthyStr(s) == s # NoneStr /\ s # ""

\* bool(d) of an Optional[Dict].
TruthyDict(d) == d # NoneDict /\ DOMAIN d # {}

HasKey(d, k) == d # NoneDict /\ k \in DOMAIN d

\* d[k] = v on a dict d.
DictSet(d, k, v) == [x \in DOMAIN d \cup {k} |-> IF x = k THEN v ELSE d[x]]

ShouldStop_five(attempt_number) == attempt_number >= MAX_ATTEMPTS - 1

\* stop_after_attempt(6)
ShouldStop(attempt_number) == attempt_number >= MAX_ATTEMPTS

ShouldRetry_all(kind) == TRUE

\* the retry= predicate: the union of five retry_if_exception_type
ShouldRetry(kind) == kind \in RetryableKinds

\* reraise=True: when the retry loop stops, the exception of the last
\* attempt is raised as it is.
Reraise(kind) == kind

\* getattr(self._local, "system_prompt", self._system_prompt)
EffectivePrompt(t) == IF _local[t] = Unset THEN _system_prompt ELSE _local[t]

OriginalPrompt_default(t) == _system_prompt

\* original_prompt = getattr(self._local, "system_prompt", self._system_prompt)
OriginalPrompt(t) == EffectivePrompt(t)

SetLocal_shared(t, value) == [u \in Threads |-> value]

\* self._local.system_prompt = value, executed by thread t
SetLocal(t, value) == [_local EXCEPT ![t] = value]

\* ------------------------------------------------- schema.CompletionOptions
ValidOptions_lax(options) == TRUE

\* CompletionOptions(**options) raises a ValidationError unless n >= 1.
ValidOptions(options) == HasKey(options, "n") => options["n"] >= 1

\* vars(CompletionOptions(**options)): the given keys, defaults for the rest.
VerifiedOptions(options) ==
    [stream |-> IF HasKey(options, "stream") THEN options["stream"] ELSE FALSE,
     n      |-> IF HasKey(options, "n") THEN options["n"] ELSE 1]

\* api_params.get("stream") is truthy
StreamParam(api_params) ==
    "stream" \in DOMAIN api_params /\ api_params["stream"] = TRUE

\* ------------------------------------------------------------- completion
\* system_prompt or getattr(self._local, "system_prompt", self._system_prompt)
ResolvePrompt(t, system_prompt) ==
    IF TruthyStr(system_prompt) THEN system_prompt ELSE EffectivePrompt(t)

RECURSIVE UserMessages(_)
UserMessages(user_messages) ==
    IF user_messages = << >> THEN << >>
    ELSE <<[role |-> "user", content |-> Head(user_messages)]>>
             \o UserMessages(Tail(user_messages))

BuildMessages_systemLast(system_prompt, user_messages) ==
    UserMessages(user_messages)
      \o (IF TruthyStr(system_prompt)
            THEN <<[role |-> "system", content |-> system_prompt]>>
            ELSE << >>)

\* the message list built by completion
BuildMessages(system_prompt, user_messages) ==
    (IF TruthyStr(system_prompt)
       THEN <<[role |-> "system", content |-> system_prompt]>>
       ELSE << >>)
      \o UserMessages(user_messages)

NoReq ==
    [op |-> "none", user_messages |-> << >>, options |-> NoneDict,
     system_prompt |-> NoneStr]

NoSent == [system_prompt |-> NoneStr, messages |-> << >>, api_params |-> << >>]

\* The attributes of the module openai before any client is constructed.
LibraryDefaults ==
    [api_key |-> NoneStr, api_type |-> "open_ai",
     api_base |-> "https://api.openai.com/v1", api_version |-> NoneStr]

NoRemote ==
    [messages |-> << >>, kwargs |-> << >>, target |-> "none",
     openai |-> LibraryDefaults, answer |-> "none"]

\* No generator: the last operation returned no stream.
NoGen ==
    [status |-> "none", raw |-> << >>, yielded |-> << >>, pulls |-> 0,
     raised |-> "none"]

\* The generator object _convert_to_response_chunks returns: nothing of its
\* body has run.
NewGen == [NoGen EXCEPT !.status = "open"]

\* No decorated function has been called.
NoUnit ==
    [status |-> "none", prompt |-> NoneStr, before |-> NoneStr, depth |-> 0,
     value |-> "none", result |-> "none"]

\* An operation of thread t ends before _call_openai_api is entered, by
\* raising the exception kind.
RaiseEarly(t, kind) ==
    /\ pc' = [pc EXCEPT ![t] = "idle"]
    /\ sent' = [sent EXCEPT ![t] = NoSent]
    /\ outcome' = [outcome EXCEPT ![t] = kind]

\* WishChat.completion up to the entry of the retry loop of _call_openai_api.
completion(t, user_messages, options, system_prompt) ==
    IF TruthyDict(options) /\ ~ValidOptions(options)
    THEN RaiseEarly(t, "ValidationError")
    ELSE
      LET resolved == ResolvePrompt(t, system_prompt)
          messages == BuildMessages(resolved, user_messages)
          api_params ==
              IF TruthyDict(options) THEN VerifiedOptions(options) ELSE << >>
      IN  /\ pc' = [pc EXCEPT ![t] = "calling"]
          /\ sent' = [sent EXCEPT ![t] =
                        [system_prompt |-> resolved, messages |-> messages,
                         api_params |-> api_params]]
          /\ outcome' = [outcome EXCEPT ![t] = "pending"]

\* What every public operation does when thread t starts it.
Begin(t, op, user_messages, options, system_prompt) ==
    /\ pc[t] = "idle"
    /\ req' = [req EXCEPT ![t] =
                 [op |-> op, user_messages |-> user_messages,
                  options |-> options, system_prompt |-> system_prompt]]
    /\ attempts' = [attempts EXCEPT ![t] = 0]
    /\ remote' = [remote EXCEPT ![t] = NoRemote]
    /\ gen' = [gen EXCEPT ![t] = NoGen]
    /\ ncalls' = ncalls + 1
    /\ UNCHANGED <<config, process, promptState, logState>>

\* ------------------------------------------------------- public operations
\* options and options.get("stream"), in __call__
CallRejects_never(options) == FALSE

CallRejects(options) ==
    TruthyDict(options) /\ HasKey(options, "stream") /\ options["stream"] = TRUE

\* options and options.get("stream") is False, in stream
StreamWarns(options) ==
    TruthyDict(options) /\ HasKey(options, "stream") /\ options["stream"] = FALSE

ForcedCallFlag_true(options) == TRUE

\* options["stream"] = False, in __call__
ForcedCallFlag(options) == FALSE

ForcedStreamFlag_kept(options) ==
    IF HasKey(options, "stream") THEN options["stream"] ELSE TRUE

\* options["stream"] = True, in stream
ForcedStreamFlag(options) == TRUE

MappingAfter_copied(options, forced) == options

\* The caller's options object after options["stream"] = flag: the dict the
\* caller passed is the one written to; None was replaced by a dict of the
\* operation's own.
MappingAfter(options, forced) == IF options = NoneDict THEN NoneDict ELSE forced

\* WishChat.__call__
Call(t, user_messages, options, system_prompt) ==
    /\ Begin(t, "call", user_messages, options, system_prompt)
    /\ warned' = [warned EXCEPT ![t] = 0]
    /\ IF CallRejects(options)
       THEN /\ RaiseEarly(t, "ValueError")
            /\ callerOptions' = [callerOptions EXCEPT ![t] = options]
       ELSE LET forced ==
                    DictSet(IF options = NoneDict THEN << >> ELSE options,
                            "stream", ForcedCallFlag(options))
            IN  /\ callerOptions' =
                       [callerOptions EXCEPT ![t] = MappingAfter(options, forced)]
                /\ completion(t, user_messages, forced, system_prompt)

\* WishChat.stream
Stream(t, user_messages, options, system_prompt) ==
    /\ Begin(t, "stream", user_messages, options, system_prompt)
    /\ warned' = [warned EXCEPT ![t] = IF StreamWarns(options) THEN 1 ELSE 0]
    /\ LET forced ==
               DictSet(IF options = NoneDict THEN << >> ELSE options,
                       "stream", ForcedStreamFlag(options))
       IN  /\ callerOptions' =
                  [callerOptions EXCEPT ![t] = MappingAfter(options, forced)]
           /\ completion(t, user_messages, forced, system_prompt)

\* WishChat.completion, called directly
Completion(t, user_messages, options, system_prompt) ==
    /\ Begin(t, "completion", user_messages, options, system_prompt)
    /\ warned' = [warned EXCEPT ![t] = 0]
    /\ callerOptions' = [callerOptions EXCEPT ![t] = options]
    /\ completion(t, user_messages, options, system_prompt)

\* ------------------------------------------------------- _call_openai_api
\* How one attempt fails: the exception ChatCompletion.create raised, the
\* ValidationError of OpenAIResponse(**response) on a payload that does not
\* fit, or "none".  A streamed payload is not looked at in the attempt.
AttemptFailure(answer, api_params) ==
    IF answer \in RemoteErrorKinds THEN answer
    ELSE IF answer = "bad" /\ ~StreamParam(api_params) THEN "ValidationError"
    ELSE "none"

LogGate_always(flag) == TRUE

\* not self.enable_logging: return, in _log_response
LogGate(flag) == flag

\* response_time = end_time - start_time
ResponseTime(start_time, end_time) == end_time - start_time

RECURSIVE Copies(_, _)
\* What the sinks of log_file.json write for one logger.info(record): each
\* of the n sinks writes the record once.
Copies(record, n) == IF n = 0 THEN << >> ELSE <<record>> \o Copies(record, n - 1)

\* The keyword that names the model in ChatCompletion.create.
Target(type) == IF type = "azure" THEN "deployment_id" ELSE "model"

\* retry_state.attempt_number: tenacity counts the attempts of each call of
\* _call_openai_api on their own.
AttemptNumber_shared(t) ==
    attempts[t] + 1 + (IF \E u \in Threads \ {t} : attempts[u] > 0 THEN 1 ELSE 0)

AttemptNumber(t) == attempts[t] + 1

\* One attempt of the retry loop: _call_openai_api runs once, ChatCompletion
\* .create takes the time elapsed and answers, and tenacity decides.
Attempt(t, answer, elapsed) ==
    /\ pc[t] = "calling"
    /\ LET start_time == now
           failure == AttemptFailure(answer, sent[t].api_params)
           n == AttemptNumber(t)
           record == [timestamp |-> start_time,
                      response_time |-> ResponseTime(start_time, now + elapsed)]
       IN  /\ attempts' = [attempts EXCEPT ![t] = attempts[t] + 1]
           /\ remote' = [remote EXCEPT ![t] =
                           [messages |-> sent[t].messages,
                            kwargs |-> sent[t].api_params,
                            target |-> Target(api_type),
                            openai |-> openai,
                            answer |-> answer]]
           /\ now' = now + elapsed
           /\ IF failure # "none"
              THEN /\ IF ShouldRetry(failure) /\ ~ShouldStop(n)
                      THEN UNCHANGED <<pc, outcome>>
                      ELSE /\ pc' = [pc EXCEPT ![t] = "idle"]
                           /\ outcome' = [outcome EXCEPT ![t] = Reraise(failure)]
                   /\ UNCHANGED <<logRecords, logFile, gen>>
              ELSE /\ pc' = [pc EXCEPT ![t] = "idle"]
                   /\ IF StreamParam(sent[t].api_params)
                      THEN /\ outcome' = [outcome EXCEPT ![t] = "chunks"]
                           /\ gen' = [gen EXCEPT ![t] = NewGen]
                           /\ UNCHANGED <<logRecords, logFile>>
                      ELSE /\ outcome' = [outcome EXCEPT ![t] = "response"]
                           /\ IF LogGate(enable_logging)
                              THEN /\ logRecords' = Append(logRecords, record)
                                   /\ logFile' = logFile \o Copies(record, handlers)
                              ELSE UNCHANGED <<logRecords, logFile>>
                           /\ UNCHANGED gen
    /\ completed' =
           IF pc'[t] = "idle" /\ outcome'[t] = "response"
           THEN completed + 1 ELSE completed
    /\ UNCHANGED <<config, process, promptState, req, callerOptions, warned,
                   sent, reuseOf, ncalls>>

\* ------------------------------------------------ _convert_to_response_chunks
\* What the provider's iterator does when it is asked for its next item: it
\* hands out a raw chunk that fits OpenAIResponseChunk ("chunk") or one that
\* does not ("junk"), ends ("end"), or raises a remote error.
ProviderItems == {"chunk", "junk", "end", "Timeout", "APIError"}

\* The raw chunk at position i of the provider's sequence.
RawChunk(i, item) == [position |-> i, fits |-> item = "chunk"]

\* OpenAIResponseChunk(**chunk), for a raw chunk that fits
ConvertChunk(chunk) == [type |-> "OpenAIResponseChunk", position |-> chunk.position]

\* The exception of one pass through the loop: the one the provider's
\* iterator raised, or the ValidationError of OpenAIResponseChunk(**chunk).
PullFailure(item) ==
    IF item \in RemoteErrorKinds THEN item
    ELSE IF item = "junk" THEN "ValidationError"
    ELSE "none"

Deliver_first(yielded, chunk_object) == <<chunk_object>> \o yielded

\* yield chunk_object
Deliver(yielded, chunk_object) == Append(yielded, chunk_object)

AfterRaise_resumes(kind) == "open"

\* A generator whose body raised has finished.
AfterRaise(kind) == "failed"

\* next() on the generator thread t holds.  An open generator asks the
\* provider's iterator for one item and runs up to its yield; a generator
\* that has finished raises StopIteration.
Pull(t, item) ==
    /\ pc[t] = "idle"
    /\ gen[t].status # "none"
    /\ LET g == gen[t]
           failure == PullFailure(item)
       IN  gen' = [gen EXCEPT ![t] =
             IF g.status # "open"
             THEN [g EXCEPT !.pulls = @ + 1, !.raised = "StopIteration"]
             ELSE IF item = "end"
             THEN [g EXCEPT !.pulls = @ + 1, !.raised = "StopIteration",
                            !.status = "ended"]
             ELSE IF item \in RemoteErrorKinds
             THEN [g EXCEPT !.pulls = @ + 1, !.raised = failure,
                            !.status = AfterRaise(failure)]
             ELSE LET chunk == RawChunk(Len(g.raw) + 1, item)
                  IN  IF failure # "none"
                      THEN [g EXCEPT !.pulls = @ + 1, !.raw = Append(@, chunk),
                                     !.raised = failure,
                                     !.status = AfterRaise(failure)]
                      ELSE [g EXCEPT !.pulls = @ + 1, !.raw = Append(@, chunk),
                                     !.raised = "none",
                                     !.yielded = Deliver(@, ConvertChunk(chunk))]]
    /\ UNCHANGED <<config, process, promptState, pc, req, callerOptions, warned,
                   sent, attempts, remote, outcome, reuseOf, ncalls, logState>>

\* The caller stops reading: the generator is closed where it stands.
Close(t) ==
    /\ pc[t] = "idle"
    /\ gen[t].status = "open"
    /\ gen' = [gen EXCEPT ![t] = [@ EXCEPT !.status = "closed", !.raised = "none"]]
    /\ UNCHANGED <<config, process, promptState, pc, req, callerOptions, warned,
                   sent, attempts, remote, outcome, reuseOf, ncalls, logState>>

\* -------------------------------------------------- override_system_prompt
\* with self.override_system_prompt(new_prompt): the generator runs up to
\* its yield.
EnterScope(t, new_prompt) ==
    /\ pc[t] = "idle"
    /\ LET original_prompt == OriginalPrompt(t)
       IN  /\ _local' = SetLocal(t, new_prompt)
           /\ scopes' = [scopes EXCEPT ![t] =
                           Append(@, [new_prompt |-> new_prompt,
                                      original_prompt |-> original_prompt])]
    /\ UNCHANGED <<config, process, escaped, callState, logState>>

\* A with-statement of the caller is entered.
OverrideEnter(t, new_prompt) == EnterScope(t, new_prompt) /\ UNCHANGED unit

Innermost(t) == scopes[t][Len(scopes[t])]

Pop(t) == [scopes EXCEPT ![t] = SubSeq(@, 1, Len(@) - 1)]

\* The with-body ends normally: the generator resumes after its yield.
ExitScope(t) ==
    /\ pc[t] = "idle"
    /\ scopes[t] # << >>
    /\ _local' = SetLocal(t, Innermost(t).original_prompt)
    /\ scopes' = Pop(t)
    /\ UNCHANGED <<config, process, escaped, callState, logState>>

\* The with-body raises: the exception is thrown into the generator at its
\* yield, which has no try/finally around it, so the generator ends there.
RaiseScope(t) ==
    /\ pc[t] = "idle"
    /\ scopes[t] # << >>
    /\ scopes' = Pop(t)
    /\ escaped' = [escaped EXCEPT ![t] = TRUE]
    /\ UNCHANGED <<config, process, _local, callState, logState>>

\* The innermost open scope of thread t is the with-statement of the
\* wrapper of the decorated function it is running.
InWrapperScope(t) ==
    unit[t].status = "running" /\ Len(scopes[t]) = unit[t].depth

\* A with-statement of the caller is left normally.
OverrideExit(t) == ~InWrapperScope(t) /\ ExitScope(t) /\ UNCHANGED unit

\* A with-statement of the caller is left by an exception of its body.
OverrideRaise(t) == ~InWrapperScope(t) /\ RaiseScope(t) /\ UNCHANGED unit

\* ------------------------------------------------------------ system_prompt
\* What decorated functions return.
Results == {"r1", "r2"}

\* return func(*args, **kwargs), in wrapper
WrapperResult(value) == value

\* A function decorated with system_prompt(prompt) is called: wrapper enters
\* its with-statement and calls the function.
DecoratedCall(t, prompt) ==
    /\ unit[t].status # "running"
    /\ EnterScope(t, prompt)
    /\ unit' = [unit EXCEPT ![t] =
                  [status |-> "running", prompt |-> prompt,
                   before |-> EffectivePrompt(t),
                   depth |-> Len(scopes[t]) + 1,
                   value |-> "none", result |-> "none"]]

\* The decorated function returns value: wrapper's with-statement is left
\* normally and wrapper returns.
DecoratedReturn(t, value) ==
    /\ InWrapperScope(t)
    /\ ExitScope(t)
    /\ unit' = [unit EXCEPT ![t] =
                  [@ EXCEPT !.status = "returned", !.value = value,
                            !.result = WrapperResult(value)]]

\* The decorated function raises: the exception leaves wrapper through its
\* with-statement.
DecoratedRaise(t) ==
    /\ InWrapperScope(t)
    /\ RaiseScope(t)
    /\ unit' = [unit EXCEPT ![t] = [@ EXCEPT !.status = "raised"]]

\* ------------------------------------------------------------ construction
Supported_any(type) == TRUE

\* api_type not in SUPPORTED_API_TYPES: raise ValueError
Supported(type) == type \in SUPPORTED_API_TYPES

\* The assignments of __init__ to the attributes of the module openai.
Configure(settings, type, key, base, version) ==
    IF type = "azure"
    THEN [api_key |-> key, api_type |-> type, api_base |-> base,
          api_version |-> version]
    ELSE [settings EXCEPT !.api_key = key]

\* logger.add("log_file.json", ...) when enable_logging
AddSink(n, logging) == IF logging THEN n + 1 ELSE n

NoCtor ==
    [api_type |-> "none", api_key |-> NoneStr, api_base |-> NoneStr,
     enable_logging |-> FALSE, outcome |-> "none"]

\* WishChat(api_type=type, api_key=key, api_base=base, api_version=
\* OtherVersion, enable_logging=logging): another client is constructed in
\* the process.
Construct(type, key, base, logging) ==
    /\ nctor' = nctor + 1
    /\ IF ~Supported(type)
       THEN /\ ctor' = [api_type |-> type, api_key |-> key, api_base |-> base,
                        enable_logging |-> logging, outcome |-> "ValueError"]
            /\ UNCHANGED <<openai, handlers, others>>
       ELSE /\ openai' = Configure(openai, type, key, base, OtherVersion)
            /\ others' = Append(others, [api_type |-> type,
                                         enable_logging |-> logging])
            /\ handlers' = AddSink(handlers, logging)
            /\ ctor' = [api_type |-> type, api_key |-> key, api_base |-> base,
                        enable_logging |-> logging, outcome |-> "ok"]
    /\ UNCHANGED <<config, promptState, callState, logState>>

\* ------------------------------------------------------------ specification
\* The state after WishChat(api_type=api_type, api_key=OwnKey, api_base=
\* OwnBase, api_version=OwnVersion, system_prompt=_system_prompt,
\* enable_logging=enable_logging) in a fresh process.
Init ==
    /\ _system_prompt \in DefaultPrompts
    /\ enable_logging \in BOOLEAN
    /\ api_type \in SUPPORTED_API_TYPES
    /\ openai = Configure(LibraryDefaults, api_type, OwnKey, OwnBase, OwnVersion)
    /\ handlers = AddSink(0, enable_logging)
    /\ ctor = NoCtor
    /\ nctor = 0
    /\ others = << >>
    /\ unit = [t \in Threads |-> NoUnit]
    /\ reuseOf = [t \in Threads |-> "none"]
    /\ gen = [t \in Threads |-> NoGen]
    /\ logFile = << >>
    /\ _local = [t \in Threads |-> Unset]
    /\ scopes = [t \in Threads |-> << >>]
    /\ escaped = [t \in Threads |-> FALSE]
    /\ pc = [t \in Threads |-> "idle"]
    /\ req = [t \in Threads |-> NoReq]
    /\ callerOptions = [t \in Threads |-> NoneDict]
    /\ warned = [t \in Threads |-> 0]
    /\ sent = [t \in Threads |-> NoSent]
    /\ attempts = [t \in Threads |-> 0]
    /\ remote = [t \in Threads |-> NoRemote]
    /\ outcome = [t \in Threads |-> "none"]
    /\ logRecords = << >>
    /\ completed = 0
    /\ ncalls = 0
    /\ now = 0

RECURSIVE OpenScopes(_)
\* The number of override scopes open in the threads of the set.
OpenScopes(threads) ==
    IF threads = {} THEN 0
    ELSE LET t == CHOOSE x \in threads : TRUE
         IN  Len(scopes[t]) + OpenScopes(threads \ {t})

\* The scope steps of thread t.
ScopeStep(t) ==
    \/ \E p \in OverridePrompts :
           OpenScopes(Threads) < MaxScopes /\ OverrideEnter(t, p)
    \/ OverrideExit(t)
    \/ OverrideRaise(t)

\* The options of thread t's operation are an object of their own.
Fresh(t) == reuseOf' = [reuseOf EXCEPT ![t] = "none"]

\* The options of thread t's operation are the object it passed to its
\* operation before.
Reused(t) == reuseOf' = [reuseOf EXCEPT ![t] = req[t].op]

\* Thread t starts a public operation with arguments from the given sets.
OpStep(t, lists, dicts, prompts, maxCalls) ==
    \/ \E um \in lists, o \in dicts, sp \in prompts :
           ncalls < maxCalls /\ Call(t, um, o, sp) /\ Fresh(t)
    \/ \E um \in lists, o \in dicts, sp \in prompts :
           ncalls < maxCalls /\ Stream(t, um, o, sp) /\ Fresh(t)
    \/ \E um \in lists, o \in dicts, sp \in prompts :
           ncalls < maxCalls /\ Completion(t, um, o, sp) /\ Fresh(t)

\* Thread t starts a public operation with the options object of its
\* operation before, as that operation left it.
ReuseStep(t, lists, prompts, maxCalls) ==
    \/ \E um \in lists, sp \in prompts :
           /\ ncalls < maxCalls /\ req[t].op # "none"
           /\ callerOptions[t] # NoneDict
           /\ Call(t, um, callerOptions[t], sp) /\ Reused(t)
    \/ \E um \in lists, sp \in prompts :
           /\ ncalls < maxCalls /\ req[t].op # "none"
           /\ callerOptions[t] # NoneDict
           /\ Stream(t, um, callerOptions[t], sp) /\ Reused(t)

\* One attempt of thread t, answered from the given set.
AttemptStep(t, answers, delays) ==
    \E a \in answers, d \in delays :
        now + d <= MaxClock /\ Attempt(t, a, d)

\* Another client is constructed, with arguments of every kind.
ConstructStep ==
    \E type \in ApiTypes, key \in OtherKeys, base \in OtherBases,
       logging \in BOOLEAN :
        nctor < MaxClients /\ Construct(type, key, base, logging)

\* The steps of thread t around a decorated function.
DecoratedStep(t) ==
    \/ \E p \in OverridePrompts :
           OpenScopes(Threads) < MaxScopes /\ DecoratedCall(t, p)
    \/ \E v \in Results : DecoratedReturn(t, v)
    \/ DecoratedRaise(t)

\* Thread t reads from the stream it holds, or stops reading.
PullStep(t) ==
    \/ \E item \in ProviderItems :
           /\ gen[t].pulls < MaxPulls
           /\ item \in {"chunk", "junk"} => Len(gen[t].raw) < MaxChunks
           /\ Pull(t, item)
    \/ Close(t)

\* The client under every input of the model.
Next ==
    \E t \in Threads :
        \/ ScopeStep(t)
        \/ DecoratedStep(t)
        \/ OpStep(t, UserMessageLists, OptionDicts, SystemPromptArgs, MaxCalls)
        \/ ReuseStep(t, UserMessageLists, SystemPromptArgs, MaxCalls)
        \/ AttemptStep(t, Answers, {0, 1})
        \/ PullStep(t)
        \/ ConstructStep

Spec == Init /\ [][Next]_vars

\* Prompt resolution: both threads nest overrides and call completion with
\* no options; the remote call answers at once.
NextPrompt ==
    \E t \in Threads :
        \/ ScopeStep(t)
        \/ \E sp \in SystemPromptArgs :
               /\ ncalls < MaxPromptCalls
               /\ Completion(t, <<"u1">>, NoneDict, sp)
               /\ Fresh(t)
        \/ AttemptStep(t, {"ok"}, {0})

InitPrompt == Init /\ ~enable_logging /\ api_type = "openai"

SpecPrompt == InitPrompt /\ [][NextPrompt]_vars

\* Entry points: one thread, outside any override, issues operations with
\* every options value; the remote call answers in every way.
NextEntry ==
    \/ OpStep(1, {<<"u1">>}, OptionDicts, SystemPromptArgs, MaxCalls)
    \/ AttemptStep(1, {"ok", "bad", "Timeout", "AuthenticationError"}, {0})

InitEntry == Init /\ api_type = "openai"

SpecEntry == InitEntry /\ [][NextEntry]_vars

\* Retry and logging: both threads issue operations with no options and no
\* explicit prompt; the remote call answers in every way and takes time.
NextRetry ==
    \E t \in Threads :
        \/ OpStep(t, {<<"u1">>}, {NoneDict}, {NoneStr}, MaxCalls)
        \/ AttemptStep(t, Answers, {0, 1})

InitRetry ==
    Init /\ _system_prompt = "You are a helpful assistant." /\ api_type = "openai"

SpecRetry == InitRetry /\ [][NextRetry]_vars

\* Message assembly: one thread issues operations with every list of user
\* strings and every explicit prompt; attempts fail and are retried.
NextMessages ==
    \/ OpStep(1, UserMessageLists, {NoneDict}, SystemPromptArgs, MaxCalls)
    \/ AttemptStep(1, {"ok", "Timeout", "AuthenticationError"}, {0})

InitMessages == Init /\ ~enable_logging /\ api_type = "openai"

SpecMessages == InitMessages /\ [][NextMessages]_vars

\* Streaming: one thread opens streams, with retries of the opening call,
\* and reads them item by item.
NextStream ==
    \/ OpStep(1, {<<"u1">>}, {NoneDict}, {NoneStr}, MaxCalls)
    \/ AttemptStep(1, {"ok", "Timeout"}, {0})
    \/ PullStep(1)

InitStream ==
    /\ Init /\ ~enable_logging /\ api_type = "openai"
    /\ _system_prompt = "You are a helpful assistant."

SpecStream == InitStream /\ [][NextStream]_vars

\* Decorated functions: one thread calls decorated functions, which nest
\* overrides, call completion with no options, and return or raise.
NextDecorator ==
    \/ DecoratedStep(1)
    \/ ScopeStep(1)
    \/ \E sp \in SystemPromptArgs :
           /\ ncalls < MaxPromptCalls
           /\ Completion(1, <<"u1">>, NoneDict, sp)
           /\ Fresh(1)
    \/ AttemptStep(1, {"ok"}, {0})

SpecDecorator == InitPrompt /\ [][NextDecorator]_vars

\* Several clients: other clients are constructed while one thread issues
\* operations on the client, whose opening call is retried.
NextClients ==
    \/ ConstructStep
    \/ OpStep(1, {<<"u1">>}, {NoneDict}, {NoneStr}, MaxCalls)
    \/ AttemptStep(1, {"ok", "Timeout"}, {0})

InitClients == Init /\ _system_prompt = "You are a helpful assistant."

SpecClients == InitClients /\ [][NextClients]_vars

\* Reuse of an options object: one thread issues an operation with every
\* options value and then operations with the same object.
NextReuse ==
    \/ OpStep(1, {<<"u1">>}, OptionDicts, {NoneStr}, MaxCalls)
    \/ ReuseStep(1, {<<"u1">>}, {NoneStr}, MaxCalls)
    \/ AttemptStep(1, {"ok", "Timeout"}, {0})

SpecReuse == InitStream /\ [][NextReuse]_vars

\* ================================================================== claims
\* The prompt a thread sees when its with-blocks have all been left
\* normally so far: the prompt of its innermost open scope, else the
\* configured default.
ScopedPrompt(t) ==
    IF scopes[t] = << >> THEN _system_prompt
    ELSE scopes[t][Len(scopes[t])].new_prompt

\* C1: whenever a thread leaves an override scope, by a normal exit or by an
\* exception raised in the body, its effective prompt afterwards is the
\* value it had immediately before that scope was entered.
C1_RestoredOnEveryExit ==
    [][\A t \in Threads :
         Len(scopes'[t]) < Len(scopes[t])
           => EffectivePrompt(t)' = scopes[t][Len(scopes[t])].original_prompt]_vars

\* C2: in a thread whose scopes have all been left normally, the effective
\* prompt is the prompt of the innermost open scope for as long as that
\* scope is the innermost one, and the configured default when no scope is
\* open: after the inner exit of a nest it is the outer prompt, after the
\* outer exit the default.
C2_ScopedOverrideLIFO ==
    \A t \in Threads : ~escaped[t] => EffectivePrompt(t) = ScopedPrompt(t)

\* Thread 1 has entered and left a scope and sees the default again, while
\* thread 2 is two scopes deep and sees the inner prompt, which differs
\* from the outer one.
C2_Witness ==
    /\ ~escaped[1] /\ scopes[1] = << >> /\ _local[1] # Unset
    /\ EffectivePrompt(1) = "You are a helpful assistant."
    /\ ~escaped[2] /\ Len(scopes[2]) = 2
    /\ scopes[2][1].new_prompt = "You are a dog."
    /\ scopes[2][2].new_prompt = ""
    /\ EffectivePrompt(2) = ""

\* C3: a step in which one thread enters or leaves an override scope
\* changes neither the effective prompt of another thread nor what that
\* thread has sent; and the system prompt of an operation a thread starts
\* without an explicit prompt is decided by that thread's own scopes alone.
C3_ContextIsolation ==
    [][/\ \A t \in Threads, u \in Threads :
            (t # u /\ scopes'[t] # scopes[t])
              => /\ EffectivePrompt(u)' = EffectivePrompt(u)
                 /\ sent'[u] = sent[u]
       /\ \A u \in Threads :
            (/\ pc[u] = "idle" /\ pc'[u] = "calling"
             /\ req'[u].system_prompt = NoneStr
             /\ ~escaped[u])
              => sent'[u].system_prompt = ScopedPrompt(u)]_vars

\* Thread 1 holds an override while thread 2, outside any scope, has an
\* operation under way whose system message is the configured default.
C3_Witness ==
    /\ scopes[1] # << >> /\ _local[1] = "You are a dog."
    /\ scopes[2] = << >> /\ _local[2] = Unset
    /\ pc[2] = "calling" /\ req[2].system_prompt = NoneStr
    /\ _system_prompt = "You are a helpful assistant."
    /\ sent[2].messages[1] =
           [role |-> "system", content |-> "You are a helpful assistant."]

\* The five failure kinds the claims call retryable.
FiveKinds ==
    {"Timeout", "APIError", "APIConnectionError", "RateLimitError",
     "ServiceUnavailableError"}

\* How the last attempt of thread t failed: the error kind the remote call
\* raised, "ValidationError" for a non-streamed payload that does not fit
\* the response schema, or "none".
LastFailure(t) ==
    IF remote[t].answer \in RemoteErrorKinds THEN remote[t].answer
    ELSE IF /\ remote[t].answer = "bad"
            /\ ~("stream" \in DOMAIN remote[t].kwargs
                   /\ remote[t].kwargs["stream"] = TRUE)
         THEN "ValidationError"
    ELSE "none"

\* C4: no operation makes more than 6 remote invocations, and an operation
\* that has ended with its last attempt failing in a retryable kind (so
\* every attempt failed that way) has made exactly 6 and has raised the
\* failure of the 6th to the caller as it was.
C4_RetryExhaustion ==
    \A t \in Threads :
        /\ attempts[t] <= 6
        /\ (pc[t] = "idle" /\ remote[t].answer \in FiveKinds)
             => attempts[t] = 6 /\ outcome[t] = remote[t].answer

\* An operation has ended after 6 invocations by raising RateLimitError.
C4_Witness ==
    \E t \in Threads :
        /\ pc[t] = "idle" /\ attempts[t] = 6
        /\ remote[t].answer = "RateLimitError"
        /\ outcome[t] = "RateLimitError"

\* C5: after a failed attempt the retry loop goes on to another attempt if
\* and only if the failure is of one of the five kinds and fewer than 6
\* attempts have been made; after a failure of another kind the operation
\* has ended by raising that failure, with the invocations made so far.
C5_RetryIffRetryable ==
    \A t \in Threads :
        (attempts[t] >= 1 /\ LastFailure(t) # "none")
          => /\ pc[t] = "calling"
                  <=> (LastFailure(t) \in FiveKinds /\ attempts[t] < 6)
             /\ LastFailure(t) \notin FiveKinds
                  => pc[t] = "idle" /\ outcome[t] = LastFailure(t)

\* One operation has ended at its first attempt with an authentication
\* failure, another at its third with a payload that fails validation.
C5_Witness ==
    /\ pc[1] = "idle" /\ attempts[1] = 1
    /\ outcome[1] = "AuthenticationError"
    /\ pc[2] = "idle" /\ attempts[2] = 3
    /\ outcome[2] = "ValidationError"

\* options carries stream = True
SetsStreamTrue(options) ==
    options # NoneDict /\ "stream" \in DOMAIN options /\ options["stream"] = TRUE

\* options carries stream = False
SetsStreamFalse(options) ==
    options # NoneDict /\ "stream" \in DOMAIN options
      /\ options["stream"] = FALSE

\* options fits CompletionOptions
FitsSchema(options) ==
    (options # NoneDict /\ "n" \in DOMAIN options) => options["n"] >= 1

\* the last remote invocation of thread t carried stream = flag
CarriedStream(t, flag) ==
    "stream" \in DOMAIN remote[t].kwargs /\ remote[t].kwargs["stream"] = flag

C7_CallForcesNonStreaming ==
    \A t \in Threads :
        (/\ req[t].op = "call"
         /\ ~SetsStreamTrue(req[t].options)
         /\ FitsSchema(req[t].options))
          => /\ attempts[t] = 0 => pc[t] = "calling"
             /\ attempts[t] >= 1 => CarriedStream(t, FALSE)
             /\ (attempts[t] = 1 /\ remote[t].answer = "ok")
                  => pc[t] = "idle" /\ outcome[t] = "response"
             /\ outcome[t] = "response" => remote[t].answer = "ok"

\* A call with options {n: 2} has returned a response after one invocation,
\* which carried stream = false and n = 2.
C7_Witness ==
    \E t \in Threads :
        /\ req[t].op = "call" /\ req[t].options = [n |-> 2]
        /\ attempts[t] = 1 /\ outcome[t] = "response"
        /\ remote[t].kwargs = [stream |-> FALSE, n |-> 2]

\* C8: stream warns once when its options set stream to false and not at
\* all otherwise, never ends with a ValueError, and with options that fit
\* the schema enters the retry loop, where every remote invocation carries
\* stream = true.
C8_StreamForcesStreaming ==
    \A t \in Threads :
        req[t].op = "stream"
          => /\ warned[t] = IF SetsStreamFalse(req[t].options) THEN 1 ELSE 0
             /\ outcome[t] # "ValueError"
             /\ FitsSchema(req[t].options)
                  => /\ attempts[t] = 0 => pc[t] = "calling"
                     /\ attempts[t] >= 1 => CarriedStream(t, TRUE)

\* A stream with options {stream: False} has warned once and has returned
\* the chunk sequence of an invocation that carried stream = true.
C8_Witness ==
    \E t \in Threads :
        /\ req[t].op = "stream" /\ req[t].options = [stream |-> FALSE]
        /\ warned[t] = 1 /\ attempts[t] = 1 /\ outcome[t] = "chunks"
        /\ CarriedStream(t, TRUE)

\* C9: with logging disabled no record is ever emitted; with logging
\* enabled the records emitted are as many as the non-streaming operations
\* that have returned a response, so none comes from a streaming operation,
\* a failed attempt or an operation that ended in an error; and every
\* record has a response time >= 0.
C9_LoggingGate ==
    /\ ~enable_logging => logRecords = << >>
    /\ enable_logging => Len(logRecords) = completed
    /\ \A i \in 1..Len(logRecords) : logRecords[i].response_time >= 0

\* With logging enabled two records exist, one with a response time of 1,
\* while thread 1 has returned a response at its second attempt and
\* thread 2 has returned a response too.
C9_Witness ==
    /\ enable_logging /\ Len(logRecords) = 2
    /\ \E i \in 1..2 : logRecords[i].response_time = 1
    /\ outcome[1] = "response" /\ attempts[1] = 2
    /\ outcome[2] = "response"

\* C10: the system prompt of an operation is the explicit argument whenever
\* one is supplied, else the override of the thread if one is set, else the
\* configured default.
C10_ExplicitPromptWins ==
    [][\A t \in Threads :
         (pc[t] = "idle" /\ pc'[t] = "calling")
           => sent'[t].system_prompt =
                  IF req'[t].system_prompt # NoneStr
                  THEN req'[t].system_prompt
                  ELSE IF _local[t] # Unset THEN _local[t]
                  ELSE _system_prompt]_vars

\* messages is an optional leading system message followed by one user
\* message per string of user_messages, in their order.
WellAssembled(messages, user_messages) ==
    LET k == Len(user_messages)
        lead == Len(messages) - k
    IN  /\ lead \in {0, 1}
        /\ lead = 1 => messages[1].role = "system"
        /\ \A i \in 1..k :
               messages[lead + i] = [role |-> "user", content |-> user_messages[i]]

\* C11: every remote invocation of an operation carries a message list of
\* at most one system message, placed first, followed by the user strings
\* of the operation in the given order, and a retry carries the list of
\* the attempt before it.
C11_MessageAssembly ==
    [][\A t \in Threads :
         attempts'[t] = attempts[t] + 1
           => /\ WellAssembled(remote'[t].messages, req[t].user_messages)
              /\ attempts[t] >= 1 => remote'[t].messages = remote[t].messages]_vars

\* The third invocation of an operation with the strings u2, u1 and the
\* default prompt has carried the system message and then u2, u1.
C11_Witness ==
    \E t \in Threads :
        /\ attempts[t] = 3
        /\ req[t].user_messages = <<"u2", "u1">>
        /\ remote[t].messages =
               <<[role |-> "system", content |-> "You are a helpful assistant."],
                 [role |-> "user", content |-> "u2"],
                 [role |-> "user", content |-> "u1"]>>

\* C12: the items a stream has delivered are one OpenAIResponseChunk per raw
\* chunk of the provider, in the provider's order; the stream ends when the
\* provider's sequence ends; after j reads at most j raw chunks have been
\* taken from the provider, and a caller that stops reading gets no error.
C12_LazyChunkStream ==
    \A t \in Threads :
        gen[t].status # "none"
          => LET g == gen[t]
             IN  /\ Len(g.yielded) <= Len(g.raw)
                 /\ Len(g.raw) <= g.pulls
                 /\ \A i \in 1..Len(g.yielded) :
                        /\ g.raw[i].fits
                        /\ g.yielded[i] =
                               [type |-> "OpenAIResponseChunk", position |-> i]
                 /\ g.status \in {"open", "ended", "closed"}
                      => Len(g.yielded) = Len(g.raw)
                 /\ g.status = "ended" => g.raised = "StopIteration"
                 /\ g.status = "closed" => g.raised \in {"none", "StopIteration"}

\* A stream of two chunks has been read to its end.
C12_Witness ==
    \E t \in Threads :
        /\ gen[t].status = "ended"
        /\ Len(gen[t].yielded) = 2
        /\ gen[t].pulls = 3

\* C20: a read of an open stream that fails, by a remote failure or by a
\* raw chunk that does not fit OpenAIResponseChunk, raises that failure at
\* the read: no remote invocation follows, the stream is finished, and the
\* items delivered before stay as they are; reads of the finished stream
\* deliver nothing more.
C20_PullFailurePropagates ==
    [][\A t \in Threads :
         gen'[t].pulls = gen[t].pulls + 1
           => LET g == gen[t]
                  h == gen'[t]
              IN  /\ (g.status = "open" /\ Len(h.raw) > Len(g.raw)
                        /\ ~h.raw[Len(h.raw)].fits)
                       => h.raised = "ValidationError"
                  /\ (g.status = "open" /\ h.raised \notin {"none", "StopIteration"})
                       => /\ h.status = "failed"
                          /\ h.yielded = g.yielded
                          /\ attempts' = attempts
                          /\ pc'[t] = "idle"
                  /\ g.status = "failed"
                       => /\ h.raised = "StopIteration"
                          /\ h.yielded = g.yielded /\ h.raw = g.raw
                          /\ attempts' = attempts]_vars

\* A stream opened at the second attempt has delivered one chunk and then
\* failed with a Timeout, which no attempt followed.
C20_Witness ==
    \E t \in Threads :
        /\ gen[t].status = "failed"
        /\ gen[t].raised = "Timeout"
        /\ Len(gen[t].yielded) = 1
        /\ attempts[t] = 2

\* C13: a function decorated with system_prompt(prompt) starts with prompt
\* as its effective prompt, the wrapper returns what the function returned,
\* and when the function has finished, by returning or by raising, the
\* effective prompt is the one from before the call.
C13_DecoratorScopesPrompt ==
    [][\A t \in Threads :
         /\ (unit[t].status # "running" /\ unit'[t].status = "running")
              => EffectivePrompt(t)' = unit'[t].prompt
         /\ (unit[t].status = "running" /\ unit'[t].status # "running")
              => /\ EffectivePrompt(t)' = unit[t].before
                 /\ unit'[t].status = "returned"
                      => unit'[t].result = unit'[t].value]_vars

\* C14: every remote invocation of the client is made with the credential
\* and the API variant the client was constructed with, whatever has been
\* done since, the construction of other clients included.
C14_ConfigurationFixed ==
    \A t \in Threads :
        attempts[t] >= 1
          => /\ remote[t].openai.api_key = OwnKey
             /\ remote[t].openai.api_type =
                    (IF api_type = "azure" THEN "azure" ELSE "open_ai")
             /\ remote[t].target = Target(api_type)

\* C16: with logging enabled, log_file.json holds one record for each
\* non-streaming operation that has returned a response, however many
\* clients have been constructed with logging enabled.
C16_OneRecordPerCall ==
    enable_logging => Len(logFile) = completed

\* C18: a construction with an API type other than openai and azure raises
\* a ValueError and leaves the attributes of the module openai, the sinks
\* of the logger and the set of constructed clients as they were.
C18_UnsupportedTypeFailsFirst ==
    [][(nctor' = nctor + 1 /\ ctor'.api_type \notin {"openai", "azure"})
         => /\ ctor'.outcome = "ValueError"
            /\ UNCHANGED <<openai, handlers, others>>]_vars

\* A construction with the type anthropic, another key and logging enabled
\* has failed, and a later operation of the client has been invoked with
\* the client's own key.
C18_Witness ==
    /\ ctor.outcome = "ValueError"
    /\ ctor.api_type = "anthropic"
    /\ ctor.api_key = "key-2"
    /\ ctor.enable_logging
    /\ handlers = 0
    /\ others = << >>
    /\ \E t \in Threads : attempts[t] >= 1 /\ remote[t].openai.api_key = OwnKey

\* C15: an attempt that succeeds ends the operation with its result, so an
\* operation that succeeds at attempt k has made k invocations; an attempt
\* of one thread changes no other thread's count, every operation starts
\* its count at zero, and a retryable failure below the sixth attempt of
\* the operation is retried whatever other operations have used up.
C15_OwnRetryBudget ==
    [][\A t \in Threads :
         /\ attempts'[t] = attempts[t] + 1
              => /\ \A u \in Threads \ {t} :
                        attempts'[u] = attempts[u] /\ pc'[u] = pc[u]
                 /\ remote'[t].answer = "ok"
                      => /\ pc'[t] = "idle"
                         /\ outcome'[t] \in {"response", "chunks"}
                 /\ (remote'[t].answer \in FiveKinds /\ attempts'[t] < 6)
                      => pc'[t] = "calling"
         /\ (pc[t] = "idle" /\ pc'[t] = "calling") => attempts'[t] = 0
         /\ pc[t] = "idle" => attempts'[t] <= attempts[t]]_vars

\* One thread has used up its six attempts on Timeouts, and the other has
\* got its response at its own sixth attempt.
C15_Witness ==
    /\ pc[1] = "idle" /\ attempts[1] = 6 /\ outcome[1] = "Timeout"
    /\ pc[2] = "idle" /\ attempts[2] = 6 /\ outcome[2] = "response"

====
